---- MODULE Spec2Model ----
(***************************************************************************)
(* Model of src/app.ts: a single-shot script that loads the environment,   *)
(* selects a chat-model client from LLM_PROVIDER, binds a zod schema and a *)
(* two-message prompt template to it, invokes the chain once with a fixed  *)
(* input and logs the result.                                              *)
(*                                                                         *)
(* Strings that take part in prompt formatting are sequences of chunks; a  *)
(* chunk "{" or "}" is a brace character.  JavaScript values are tagged    *)
(* records [t, n, frac, s, a]: a number is n + (a non-zero fraction iff    *)
(* frac), so n is its floor.                                               *)
(***************************************************************************)
EXTENDS Integers, Sequences, FiniteSets, TLC

VARIABLES
    shellEnv,      \* LLM_PROVIDER in the environment the process is started with
    dotenvFile,    \* LLM_PROVIDER in the .env file
    env,           \* process.env.LLM_PROVIDER
    model,         \* the module-level `model` handle
    llm,           \* llmWihStructuredOutput
    chain,         \* chain
    pc,            \* position of the script
    calls,         \* number of chain.invoke calls issued to the backend
    input,         \* the values bound to the template
    prompt,        \* the rendered messages
    request,       \* the request in flight to the backend
    reply,         \* the value the hosted model sent back
    result,        \* the value chain.invoke resolved to
    error,         \* the rejection that left run
    stdout         \* what console.log was given, in order

vars == <<shellEnv, dotenvFile, env, model, llm, chain, pc, calls, input,
          prompt, request, reply, result, error, stdout>>

\* ------------------------------------------------------------------ bounds

\* Longest caller-supplied string, in chunks, of the prompt specification.
MaxLen == 3
\* Largest integer part of a number a backend returns.
MaxNum == 11

\* ------------------------------------------------------------ JS values

Undefined == [t |-> "undefined", n |-> 0, frac |-> FALSE, s |-> "", a |-> <<>>]
Str(x) == [t |-> "string", n |-> 0, frac |-> FALSE, s |-> x, a |-> <<>>]
Num(k) == [t |-> "number", n |-> k, frac |-> FALSE, s |-> "", a |-> <<>>]
Frac(k) == [t |-> "number", n |-> k, frac |-> TRUE, s |-> "", a |-> <<>>]
Arr(items) == [t |-> "array", n |-> 0, frac |-> FALSE, s |-> "", a |-> items]

\* ------------------------------------------------------------ dotenv

\* dotenv.config(): a variable of the .env file is copied into process.env
\* unless the environment already has it.
dotenvConfig(shell, file) == IF shell # Undefined THEN shell ELSE file

\* ------------------------------------------------------ provider selection

ChatOpenAI == [client |-> "ChatOpenAI", model |-> "gpt-4", temperature |-> 0]
\* Variant: the Vertex AI client left at a non-zero temperature.
ChatVertexAIWarm ==
    [client |-> "ChatVertexAI", model |-> "gemini-1.5-pro-001", temperature |-> 1]

ChatVertexAI ==
    [client |-> "ChatVertexAI", model |-> "gemini-1.5-pro-001", temperature |-> 0]

\* Variant: the comparison ignores letter case.
selectModelIgnoreCase(v) ==
    IF v.t = "string" /\ v.s \in {"OPENAI", "openai"} THEN ChatOpenAI ELSE ChatVertexAI

\* process.env.LLM_PROVIDER == "OPENAI": undefined and every other string
\* compare unequal.
selectModel(v) ==
    IF v.t = "string" /\ v.s = "OPENAI" THEN ChatOpenAI ELSE ChatVertexAI

\* ------------------------------------------------------------ prompt

systemTemplate ==
    <<"You are an expert in ", "{", "language", "}",
      ", you have to detect grammar problems sentences">>

promptTemplate ==
    << [role |-> "system", template |-> systemTemplate],
       [role |-> "user", template |-> <<"{", "text", "}">>] >>

FormatError == <<"#error">>

\* Index of the first "}" of tpl at or after i, 0 when there is none.
RECURSIVE nextBracket(_, _)
nextBracket(tpl, i) ==
    IF i > Len(tpl) THEN 0
    ELSE IF tpl[i] = "}" THEN i
    ELSE nextBracket(tpl, i + 1)

\* Variant: the placeholder is left as written.
valueOfUnsubstituted(name, values) == <<"{">> \o name \o <<"}">>

\* The value bound to a placeholder name; a name with no value is an error.
valueOf(name, values) ==
    IF name = <<"language">> THEN values.language
    ELSE IF name = <<"text">> THEN values.text
    ELSE FormatError

\* f-string interpolation of a template from position i: "{{" and "}}" are
\* literal braces, "{name}" is replaced by the value of name, and the
\* substituted value is not scanned again.
RECURSIVE interpolate(_, _, _)
interpolate(tpl, i, values) ==
    IF i > Len(tpl) THEN <<>>
    ELSE IF tpl[i] = "{" /\ i + 1 <= Len(tpl) /\ tpl[i + 1] = "{"
        THEN <<"{">> \o interpolate(tpl, i + 2, values)
    ELSE IF tpl[i] = "}" /\ i + 1 <= Len(tpl) /\ tpl[i + 1] = "}"
        THEN <<"}">> \o interpolate(tpl, i + 2, values)
    ELSE IF tpl[i] = "{"
        THEN LET j == nextBracket(tpl, i)
             IN  IF j = 0 THEN FormatError
                 ELSE valueOf(SubSeq(tpl, i + 1, j - 1), values)
                          \o interpolate(tpl, j + 1, values)
    ELSE IF tpl[i] = "}" THEN FormatError
    ELSE <<tpl[i]>> \o interpolate(tpl, i + 1, values)

formatMessages(tpl, values) ==
    [i \in 1..Len(tpl) |->
        [role |-> tpl[i].role,
         content |-> interpolate(tpl[i].template, 1, values)]]

\* The input run binds to the template.
RunInput ==
    [language |-> <<"Spanish">>, text |-> <<"Yo estas enfadado consigo">>]

\* ------------------------------------------------------------ schema

Sentiments == {"happy", "neutral", "sad", "angry", "frustrated"}

zEnum(v, options) == v.t = "string" /\ v.s \in options
zNumber(v) == v.t = "number"
zInt(v) == ~v.frac
zMin(v, m) == v.n >= m
\* Variant: the upper limit is taken as exclusive.
zMaxExclusive(v, m) == v.n < m

zMax(v, m) == v.n < m \/ (v.n = m /\ ~v.frac)
zString(v) == v.t = "string"
zArrayOfString(v) == v.t = "array" /\ \A i \in 1..Len(v.a) : zString(v.a[i])

\* classificationSchema.safeParse(v).success for an object v; an absent key
\* reads as undefined.
classificationSchema(v) ==
    /\ zEnum(v.sentiment, Sentiments)
    /\ zNumber(v.aggressiveness) /\ zInt(v.aggressiveness)
    /\ zMin(v.aggressiveness, 1) /\ zMax(v.aggressiveness, 10)
    /\ zNumber(v.correctness) /\ zInt(v.correctness)
    /\ zMin(v.correctness, 1) /\ zMax(v.correctness, 10)
    /\ zArrayOfString(v.errors)
    /\ zString(v.solution)
    /\ zString(v.language)

\* ------------------------------------------------------------ inputs

\* Values of LLM_PROVIDER in the environment and in the .env file.
ProviderValues ==
    {Undefined, Str("OPENAI"), Str("openai"), Str(""), Str("VERTEX")}

\* The integers 0..MaxNum, and 1.5.
Numbers == {Num(k) : k \in 0..MaxNum} \cup {Frac(1)}

E1 == Str("use estar not ser for temporary states")
E2 == Str("consigo does not agree with yo")

\* What the hosted model may send back as the structured reply: any object,
\* conforming to the schema or not.
StubReplies ==
    [sentiment : {Str(x) : x \in Sentiments \cup {"furious"}} \cup {Undefined},
     aggressiveness : Numbers \cup {Num(15), Str("2"), Undefined},
     correctness : {Num(0), Num(1), Num(10), Num(11)},
     errors : {Arr(<<>>), Arr(<<E2, E1>>), Arr(<<E1, Num(1)>>)},
     solution : {Str("Yo estoy enfadado"), Num(1)},
     language : {Str("Spanish"), Undefined}]

Failures == {"missing credentials", "network failure", "malformed model response"}

\* ------------------------------------------------------------ state

NoModel == [client |-> "none", model |-> "", temperature |-> -1]
NoLlm == [model |-> NoModel, schema |-> "", name |-> ""]
NoChain == [first |-> <<>>, last |-> NoLlm]
NoInput == [language |-> <<>>, text |-> <<>>]

Init ==
    /\ shellEnv \in ProviderValues
    /\ dotenvFile \in ProviderValues
    /\ env = shellEnv
    /\ model = NoModel
    /\ llm = NoLlm
    /\ chain = NoChain
    /\ pc = "start"
    /\ calls = 0
    /\ input = NoInput
    /\ prompt = <<>>
    /\ request = <<>>
    /\ reply = <<>>
    /\ result = <<>>
    /\ error = ""
    /\ stdout = <<>>

\* ------------------------------------------------------------ steps

\* app.ts:11
LoadConfig ==
    /\ pc = "start"
    /\ env' = dotenvConfig(shellEnv, dotenvFile)
    /\ pc' = "configured"
    /\ UNCHANGED <<shellEnv, dotenvFile, model, llm, chain, calls, input, prompt,
                   request, reply, result, error, stdout>>

\* app.ts:44-55
SelectProvider ==
    /\ pc = "configured"
    /\ model' = selectModel(env)
    /\ pc' = "selected"
    /\ UNCHANGED <<shellEnv, dotenvFile, env, llm, chain, calls, input, prompt,
                   request, reply, result, error, stdout>>

\* app.ts:60-62
withStructuredOutput(m) ==
    [model |-> m, schema |-> "classificationSchema", name |-> "extractor"]

BindSchema ==
    /\ pc = "selected"
    /\ llm' = withStructuredOutput(model)
    /\ pc' = "bound"
    /\ UNCHANGED <<shellEnv, dotenvFile, env, model, chain, calls, input, prompt,
                   request, reply, result, error, stdout>>

\* app.ts:65
pipe(first, last) == [first |-> first, last |-> last]

Pipe ==
    /\ pc = "bound"
    /\ chain' = pipe(promptTemplate, llm)
    /\ pc' = "chained"
    /\ UNCHANGED <<shellEnv, dotenvFile, env, model, llm, calls, input, prompt,
                   request, reply, result, error, stdout>>

\* app.ts:67, up to the await: the template is rendered and the messages are
\* sent to the schema-bound model.
Invoke ==
    /\ pc = "chained"
    /\ input' = RunInput
    /\ prompt' = formatMessages(chain.first, RunInput)
    /\ request' = <<[to |-> chain.last, messages |-> formatMessages(chain.first, RunInput)]>>
    /\ calls' = calls + 1
    /\ pc' = "awaiting"
    /\ UNCHANGED <<shellEnv, dotenvFile, env, model, llm, chain, reply, result,
                   error, stdout>>

\* Variant: the rejection is caught and the call is issued again.
onRejectionRetry == "chained"

\* Variant: the rejection is caught and the script ends normally.
onRejectionSwallow == "done"

\* Where control goes when the awaited call rejects: run has no try/catch and
\* run() at app.ts:72 has no .catch, so the rejection ends the process.
onRejection == "failed"

\* Variant: the handle hands the reply on without parsing it.
parsesUnchecked(v) == TRUE

\* app.ts:60: the handle was built from the zod schema, so it parses the
\* model's reply with it; a reply the schema rejects is thrown as a parser
\* exception.
parses(v) == classificationSchema(v)

\* app.ts:67, the backend replied: the await resolves to the reply when the
\* schema accepts it, and rejects when it does not.
BackendAnswers ==
    /\ pc = "awaiting"
    /\ \E v \in StubReplies :
        /\ reply' = <<v>>
        /\ IF parses(v)
              THEN result' = <<v>> /\ error' = "" /\ pc' = "received"
              ELSE result' = <<>> /\ error' = "malformed model response"
                   /\ pc' = onRejection
    /\ request' = <<>>
    /\ UNCHANGED <<shellEnv, dotenvFile, env, model, llm, chain, calls, input,
                   prompt, stdout>>

\* app.ts:67, the call failed before a reply was parsed: the await rejects.
BackendFails ==
    /\ pc = "awaiting"
    /\ \E e \in Failures : error' = e
    /\ request' = <<>>
    /\ pc' = onRejection
    /\ UNCHANGED <<shellEnv, dotenvFile, env, model, llm, chain, calls, input,
                   prompt, reply, result, stdout>>

\* Variant: the entries of errors are dropped before logging.
consoleLogArgNoErrors(r) == [result |-> [r EXCEPT !.errors = Arr(<<>>)]]

\* The argument of console.log at app.ts:69: the shorthand object { result }.
consoleLogArg(r) == [result |-> r]

\* app.ts:69
ConsoleLog ==
    /\ pc = "received"
    /\ stdout' = Append(stdout, consoleLogArg(result[1]))
    /\ pc' = "done"
    /\ UNCHANGED <<shellEnv, dotenvFile, env, model, llm, chain, calls, input,
                   prompt, request, reply, result, error>>

Next ==
    \/ LoadConfig
    \/ SelectProvider
    \/ BindSchema
    \/ Pipe
    \/ Invoke
    \/ BackendAnswers
    \/ BackendFails
    \/ ConsoleLog

Spec == Init /\ [][Next]_vars

\* The process keeps running its next statement, and the backend eventually
\* answers or fails.
FairSpec == Spec /\ WF_vars(Next)

\* ------------------------------------------------- prompt specification

Chunks == {"Spanish", "{", "}", "language"}

RECURSIVE SeqsUpTo(_, _)
SeqsUpTo(S, k) ==
    IF k = 0 THEN {<<>>}
    ELSE LET shorter == SeqsUpTo(S, k - 1)
         IN  shorter \cup {Append(q, c) : q \in shorter, c \in S}

PromptInit ==
    /\ input \in [language : SeqsUpTo(Chunks, MaxLen), text : SeqsUpTo(Chunks, MaxLen)]
    /\ pc = "format"
    /\ prompt = <<>>
    /\ shellEnv = Undefined
    /\ dotenvFile = Undefined
    /\ env = Undefined
    /\ model = NoModel
    /\ llm = NoLlm
    /\ chain = NoChain
    /\ calls = 0
    /\ request = <<>>
    /\ reply = <<>>
    /\ result = <<>>
    /\ error = ""
    /\ stdout = <<>>

\* promptTemplate.formatMessages(input)
FormatPrompt ==
    /\ pc = "format"
    /\ prompt' = formatMessages(promptTemplate, input)
    /\ pc' = "formatted"
    /\ UNCHANGED <<shellEnv, dotenvFile, env, model, llm, chain, calls, input,
                   request, reply, result, error, stdout>>

PromptNext == FormatPrompt

PromptSpec == PromptInit /\ [][PromptNext]_vars

\* ------------------------------------------------------------ properties

\* C1: once the provider is selected, the handle is the OpenAI client exactly
\* when LLM_PROVIDER is the string "OPENAI", and the Vertex AI client for every
\* other value (another letter case, the empty string, unset); there is
\* always a client.
C1_ProviderSelection ==
    pc \notin {"start", "configured"} =>
        /\ model.client \in {"ChatOpenAI", "ChatVertexAI"}
        /\ (model.client = "ChatOpenAI") <=> (env = Str("OPENAI"))
        /\ (model.client = "ChatVertexAI") <=> (env # Str("OPENAI"))

C1_Witness ==
    pc = "selected" /\ env = Str("openai") /\ model.client = "ChatVertexAI"

\* C2: the number of calls issued to the backend never exceeds one, and it is
\* exactly one from the moment the request is issued, whether the backend
\* answers or fails.
C2_ExactlyOneCall ==
    /\ calls <= 1
    /\ (pc \in {"awaiting", "received", "done", "failed"} => calls = 1)
    /\ (pc \in {"start", "configured", "selected", "bound", "chained"} => calls = 0)

C2_Witness == pc = "failed" /\ calls = 1 /\ error = "network failure"

\* C3 as stated: when the backend returned a valid Classification Result, the
\* emitted object is that object itself.
C3_EmitsBackendObject ==
    (pc = "done" /\ classificationSchema(result[1])) => stdout = <<result[1]>>

\* C3 amended: when the backend returned a valid Classification Result, what
\* is logged is one object whose only field, result, is that object with
\* every field and the order of errors unchanged.
C3_EmitsWrappedResult ==
    (pc = "done" /\ classificationSchema(result[1])) =>
        /\ Len(stdout) = 1
        /\ DOMAIN stdout[1] = {"result"}
        /\ stdout[1].result = result[1]
        /\ stdout[1].result = reply[1]

C3_Witness ==
    /\ pc = "done"
    /\ classificationSchema(result[1])
    /\ result[1].errors = Arr(<<E2, E1>>)
    /\ stdout[1].result.errors = Arr(<<E2, E1>>)

\* The values the Classification Result schema is said to accept.
Conforms(v) ==
    /\ v.sentiment \in {Str(x) : x \in {"happy", "neutral", "sad", "angry", "frustrated"}}
    /\ v.aggressiveness \in {Num(k) : k \in 1..10}
    /\ v.correctness \in {Num(k) : k \in 1..10}
    /\ v.errors.t = "array"
    /\ \A i \in 1..Len(v.errors.a) : v.errors.a[i].t = "string"
    /\ v.solution.t = "string"
    /\ v.language.t = "string"

\* C4: when the backend's reply violates a schema constraint, the call is
\* rejected as a malformed response: the script ends failed, no result is
\* received and nothing is ever written to the output.
C4_InvalidReplyRejected ==
    (reply # <<>> /\ ~Conforms(reply[1])) =>
        /\ pc = "failed"
        /\ error = "malformed model response"
        /\ result = <<>>
        /\ stdout = <<>>

C4_Witness ==
    /\ pc = "failed"
    /\ stdout = <<>>
    /\ reply = <<[sentiment |-> Str("angry"), aggressiveness |-> Num(15),
                  correctness |-> Num(10), errors |-> Arr(<<E2, E1>>),
                  solution |-> Str("Yo estoy enfadado"),
                  language |-> Str("Spanish")]>>

\* C5: the rendered prompt is the system message, the template with
\* {language} replaced by the supplied language, followed by the user message,
\* the supplied text as it is.
C5_RenderedPrompt ==
    pc = "formatted" =>
        prompt = << [role |-> "system",
                     content |-> <<"You are an expert in ">> \o input.language
                        \o <<", you have to detect grammar problems sentences">>],
                    [role |-> "user", content |-> input.text] >>

C5_Witness ==
    /\ pc = "formatted"
    /\ input.language = <<"Spanish">>
    /\ input.text = <<"{", "language", "}">>
    /\ prompt[2].content = <<"{", "language", "}">>

\* C6: a failure is not caught: it takes the script straight to its failed
\* end with no result received and nothing printed, and no step follows it.
C6_FailureTerminates ==
    /\ [](error # "" => (pc = "failed" /\ result = <<>> /\ stdout = <<>>))
    /\ [](pc = "failed" => error \in Failures)
    /\ [][pc # "failed"]_vars

C6_Witness == pc = "failed" /\ error = "missing credentials" /\ stdout = <<>>

\* C7: a reply is accepted (the call resolves to it) exactly when all six
\* fields are present and meet their constraints, it is rejected exactly when
\* they do not, and so every emitted result meets them.
C7_SchemaAcceptsIffConforms ==
    /\ reply # <<>> =>
        /\ (result = reply /\ error = "") <=> Conforms(reply[1])
        /\ (result = <<>> /\ error = "malformed model response")
              <=> ~Conforms(reply[1])
    /\ \A i \in 1..Len(stdout) : Conforms(stdout[i].result)

C7_Witness ==
    /\ pc = "done"
    /\ reply[1].aggressiveness = Num(10)
    /\ reply[1].correctness = Num(1)
    /\ reply[1].errors = Arr(<<>>)
    /\ reply[1].sentiment = Str("frustrated")
    /\ stdout[1].result = reply[1]

\* C8: the selected handle is one of the two fixed configurations, both at
\* temperature 0, it never changes once selected, and the request goes to it.
C8_FixedConfiguration ==
    /\ [](model # NoModel =>
            /\ model \in {[client |-> "ChatOpenAI", model |-> "gpt-4", temperature |-> 0],
                          [client |-> "ChatVertexAI", model |-> "gemini-1.5-pro-001",
                           temperature |-> 0]}
            /\ (llm # NoLlm => llm.model = model)
            /\ (request # <<>> => request[1].to.model = model))
    /\ [][model # NoModel => model' = model]_vars

C8_Witness ==
    pc = "awaiting" /\ model.client = "ChatVertexAI" /\ request[1].to.model = model

\* C9: the invocation binds language "Spanish" and text "Yo soy enfadado".
C9_SampleInput ==
    calls > 0 =>
        /\ input = [language |-> <<"Spanish">>, text |-> <<"Yo soy enfadado">>]
        /\ prompt[2].content = <<"Yo soy enfadado">>

Rank(p) ==
    CASE p = "start" -> 0 [] p = "configured" -> 1 [] p = "selected" -> 2
      [] p = "bound" -> 3 [] p = "chained" -> 4 [] p = "awaiting" -> 5
      [] p = "received" -> 6 [] p = "done" -> 7 [] p = "failed" -> 7

\* C10: the steps happen in program order (configuration, selection, request,
\* response, output), every execution reaches a terminal state, and nothing
\* is requested or printed after it.
C10_SequentialAndTerminates ==
    /\ [](model # NoModel => Rank(pc) >= 2)
    /\ [](calls > 0 => (Rank(pc) >= 5 /\ model # NoModel))
    /\ [](stdout # <<>> => (pc = "done" /\ result # <<>> /\ error = ""))
    /\ [][Rank(pc') > Rank(pc)]_vars
    /\ [][pc \notin {"done", "failed"}]_vars
    /\ <>(pc \in {"done", "failed"})

C10_Witness == pc = "done" /\ calls = 1 /\ Len(stdout) = 1

====
